---------------------------- MODULE Spec2Model ----------------------------
(***************************************************************************)
(* A model of ZettlrIPC (source/main/zettlr-ipc.js), the router between    *)
(* the renderer process and the application controller.                    *)
(*                                                                         *)
(* JavaScript values are modelled as records [t, v, f]:                    *)
(*   t = "prim": a primitive; v names it ("true", "false", "null",         *)
(*       "undefined", or the text of a string / the name of a hash);       *)
(*   t = "obj":  an object; f maps its own property names to JavaScript    *)
(*       values; v is "" for a plain mapping and a tag for an object the   *)
(*       controller hands out (its path tree, a file, a search result).    *)
(***************************************************************************)
EXTENDS Naturals, Sequences, FiniteSets

\* Number of distinct file/directory hashes the renderer can name.
MaxHash == 1

HashNames == <<"h1", "h2", "h3">>

Hashes == {HashNames[i] : i \in 1..MaxHash}

EmptyMap == [k \in {} |-> "undefined"]

P(s) == [t |-> "prim", v |-> s, f |-> EmptyMap]

O(fields) == [t |-> "obj", v |-> "", f |-> fields]

Opaque(tag) == [t |-> "obj", v |-> tag, f |-> EmptyMap]

Null == P("null")

Undefined == P("undefined")

JsTrue == P("true")

JsFalse == P("false")

EmptyObj == O(EmptyMap)

\* x is null or undefined: a property access or method call on x throws a
\* TypeError.
IsNullish(x) == x = Null \/ x = Undefined

\* x.hasOwnProperty(k), for x that is not nullish.  A primitive (string,
\* boolean) has none of the property names used here.
HasOwn(x, k) == x.t = "obj" /\ k \in DOMAIN x.f

\* x[k], for x that is not nullish.
Get(x, k) == IF HasOwn(x, k) THEN x.f[k] ELSE Undefined

\* !x
Not(x) == IF x \in {JsFalse, Null, Undefined} THEN JsTrue ELSE JsFalse

\* a != b (loose inequality) on the values of the model: null and undefined
\* are loosely equal to each other and to nothing else; a boolean and the
\* strings of the model are never loosely equal.
LooseNeq(a, b) == ~(a = b \/ (IsNullish(a) /\ IsNullish(b)))

----------------------------------------------------------------------------
(* The controller's state, and the record of the last dispatch.            *)

VARIABLES
    config,       \* the controller's configuration: setting name -> value
    currentFile,  \* what getCurrentFile() returns: Null or a hash
    currentDir,   \* what getCurrentDir() returns: Null or a hash
    arg,          \* the payload of the last message dispatched
    calls,        \* the calls the last dispatch made on the controller
                  \* and on the objects it hands out, in order
    handled,      \* the invocations of handleEvent by the last dispatch,
                  \* each a pair <<cmd, cnt>>
    sent,         \* the messages the last dispatch sent to the renderer
    log,          \* the diagnostics the last dispatch logged
    outcome,      \* "none" | "returned" | "threw" (a TypeError propagated)
    pre,          \* the controller's state before the last dispatch
    origin        \* history: while the last two dispatches were the same
                  \* toggle command, the configuration before the first
                  \* of the two; NoOrigin otherwise

vars == <<config, currentFile, currentDir, arg, calls, handled, sent, log,
          outcome, pre, origin>>

NoOrigin == EmptyMap

ConfigKeys == {"darkTheme", "snippets", "spellcheck"}

EnvKeys == {"pandoc"}

\* The environment-sourced values getEnv reads; the router never writes them.
Env == [k \in EnvKeys |-> P("/usr/bin/pandoc")]

\* The controller's state, as the router reads it through this._app.
AppState(cfg, file, dir) == [config |-> cfg, currentFile |-> file, currentDir |-> dir]

AppCall(m, a) == [obj |-> "app", method |-> m, args |-> a]

ConfigCall(m, a) == [obj |-> "config", method |-> m, args |-> a]

PathsCall(m, a) == [obj |-> "paths", method |-> m, args |-> a]

FileCall(m, a) == [obj |-> "file", method |-> m, args |-> a]

GetConfig == AppCall("getConfig", <<>>)

Result(c, s, l, t) == [calls |-> c, sent |-> s, log |-> l, threw |-> t]

Returned(c, s) == Result(c, s, <<>>, FALSE)

Threw(c, s) == Result(c, s, <<>>, TRUE)

\* send's lookup of the window's webContents: one call on the window object
\* the controller holds.
SenderLookup == <<[obj |-> "window", method |-> "getWindow", args |-> <<>>]>>

\* The message send(command, content = {}) emits: the default applies when
\* content is undefined, and only then.
Send(command, content) ==
    [command |-> command,
     content |-> IF content = Undefined THEN EmptyObj ELSE content]

\* config.get(k)
ConfigGet(app, k) ==
    IF k.t = "prim" /\ k.v \in ConfigKeys THEN app.config[k.v] ELSE Undefined

\* config.getEnv(k)
ConfigGetEnv(k) ==
    IF k.t = "prim" /\ k.v \in EnvKeys THEN Env[k.v] ELSE Undefined

\* paths.findFile({hash: h}): the file of that hash, or null.
FindFile(h) ==
    IF h.t = "prim" /\ h.v \in Hashes THEN Opaque("file") ELSE Null

----------------------------------------------------------------------------
(* handleEvent, one operator per case of its switch.  Each yields the      *)
(* calls made, the messages sent and whether a TypeError propagated; app is *)
(* the controller's state (this._app) where the case reads it.             *)

\* case 'get-paths'
HandleGetPaths(cnt) ==
    Returned(<<AppCall("getPaths", <<>>)>> \o SenderLookup,
             <<Send("paths", Opaque("paths"))>>)

\* case 'file-get-quicklook'
HandleFileGetQuicklook(cnt) ==
    LET lookup == <<AppCall("getPaths", <<>>),
                    PathsCall("findFile", <<O([hash |-> cnt])>>)>>
    IN  IF FindFile(cnt) = Null
        THEN Threw(lookup, <<>>)
        ELSE Returned(lookup \o <<FileCall("withContent", <<>>)>>
                          \o SenderLookup,
                      <<Send("file-quicklook", Opaque("file-with-content"))>>)

\* The cases that hand cnt to one controller method: file-get, dir-select,
\* file-new, dir-new, file-save, file-autosave, export, dir-rename,
\* file-rename, request-move.
ForwardContent(method, cnt) == Returned(<<AppCall(method, <<cnt>>)>>, <<>>)

\* The cases that call one controller method without an argument:
\* file-modified, file-revert.
CallNoArgument(method) == Returned(<<AppCall(method, <<>>)>>, <<>>)

\* Mutant of HandleDirOpen: the content is handed to openDir, as the
\* neighbouring cases hand it to their method.
HandleDirOpenWithContent(cnt) == ForwardContent("openDir", cnt)

\* case 'dir-open'
HandleDirOpen(cnt) == Returned(<<AppCall("openDir", <<>>)>>, <<>>)

\* Mutant of HandleFileDelete: the hash in the content is not looked at.
HandleFileDeleteIgnoresHash(app, cnt) ==
    IF IsNullish(cnt) THEN Threw(<<>>, <<>>)
    ELSE IF app.currentFile # Null
    THEN Returned(<<AppCall("getCurrentFile", <<>>),
                    AppCall("removeFile", <<>>)>>, <<>>)
    ELSE Returned(<<AppCall("getCurrentFile", <<>>)>>, <<>>)

\* case 'file-delete'
HandleFileDelete(app, cnt) ==
    IF IsNullish(cnt) THEN Threw(<<>>, <<>>)
    ELSE IF HasOwn(cnt, "hash")
    THEN Returned(<<AppCall("removeFile", <<Get(cnt, "hash")>>)>>, <<>>)
    ELSE IF app.currentFile # Null
    THEN Returned(<<AppCall("getCurrentFile", <<>>),
                    AppCall("removeFile", <<>>)>>, <<>>)
    ELSE Returned(<<AppCall("getCurrentFile", <<>>)>>, <<>>)

\* Mutant of HandleDirDelete: without the else, a removal by hash is
\* followed by the removal of the current directory.
HandleDirDeleteBoth(app, cnt) ==
    IF IsNullish(cnt) THEN Threw(<<>>, <<>>)
    ELSE LET byHash == IF HasOwn(cnt, "hash")
                       THEN <<AppCall("removeDir", <<Get(cnt, "hash")>>)>>
                       ELSE <<>>
         IN  IF app.currentDir # Null
             THEN Returned(byHash \o <<AppCall("getCurrentDir", <<>>),
                                       AppCall("removeDir", <<>>)>>, <<>>)
             ELSE Returned(byHash \o <<AppCall("getCurrentDir", <<>>)>>, <<>>)

\* case 'dir-delete'
HandleDirDelete(app, cnt) ==
    IF IsNullish(cnt) THEN Threw(<<>>, <<>>)
    ELSE IF HasOwn(cnt, "hash")
    THEN Returned(<<AppCall("removeDir", <<Get(cnt, "hash")>>)>>, <<>>)
    ELSE IF app.currentDir # Null
    THEN Returned(<<AppCall("getCurrentDir", <<>>),
                    AppCall("removeDir", <<>>)>>, <<>>)
    ELSE Returned(<<AppCall("getCurrentDir", <<>>)>>, <<>>)

\* case 'file-search': getPaths() is called before cnt.hash is read.
HandleFileSearch(cnt) ==
    LET tree == <<AppCall("getPaths", <<>>)>>
    IN  IF IsNullish(cnt) THEN Threw(tree, <<>>)
        ELSE LET find == tree \o
                     <<PathsCall("findFile", <<O([hash |-> Get(cnt, "hash")])>>)>>
             IN  IF FindFile(Get(cnt, "hash")) = Null
                 THEN Threw(find, <<>>)
                 ELSE Returned(
                        find \o <<FileCall("search", <<Get(cnt, "terms")>>)>>
                             \o SenderLookup,
                        <<Send("file-search-result",
                               O([hash |-> Get(cnt, "hash"),
                                  result |-> Opaque("search-result")]))>>)

\* Mutant of ToggleSetting: the negation is left out, the value read is
\* written back.
ToggleSettingNoNegation(app, key) ==
    Returned(<<GetConfig, GetConfig,
               ConfigCall("get", <<P(key)>>),
               ConfigCall("set", <<P(key), ConfigGet(app, P(key))>>)>>,
             <<>>)

\* The read-modify-write of 'toggle-theme' and 'toggle-snippets':
\* getConfig().set(key, !getConfig().get(key)).
ToggleSetting(app, key) ==
    Returned(<<GetConfig, GetConfig,
               ConfigCall("get", <<P(key)>>),
               ConfigCall("set", <<P(key), Not(ConfigGet(app, P(key)))>>)>>,
             <<>>)

\* case 'toggle-theme'
HandleToggleTheme(app, cnt) == ToggleSetting(app, "darkTheme")

\* case 'toggle-snippets'
HandleToggleSnippets(app, cnt) == ToggleSetting(app, "snippets")

\* case 'get-preferences': a JSON copy of the configuration, with
\* supportedLangs added.
HandleGetPreferences(app, cnt) ==
    Returned(<<GetConfig, ConfigCall("getConfig", <<>>),
               GetConfig, ConfigCall("getSupportedLangs", <<>>)>>
                 \o SenderLookup,
             <<Send("preferences",
                    O([k \in ConfigKeys \cup {"supportedLangs"} |->
                         IF k \in ConfigKeys THEN app.config[k]
                         ELSE Opaque("supported-langs")]))>>)

\* One of the two comparisons of 'update-config': the calls it makes and the
\* message it sends, if any.
ReflectSetting(app, cnt, key, reply) ==
    [calls |-> <<GetConfig, ConfigCall("get", <<P(key)>>)>>
                 \o (IF LooseNeq(Get(cnt, key), ConfigGet(app, P(key)))
                     THEN SenderLookup ELSE <<>>),
     sent  |-> IF LooseNeq(Get(cnt, key), ConfigGet(app, P(key)))
               THEN <<Send(reply, P("no-emit"))>> ELSE <<>>]

\* case 'update-config': cnt.darkTheme is read before any call.
HandleUpdateConfig(app, cnt) ==
    IF IsNullish(cnt) THEN Threw(<<>>, <<>>)
    ELSE LET theme    == ReflectSetting(app, cnt, "darkTheme", "toggle-theme")
             snippets == ReflectSetting(app, cnt, "snippets", "toggle-snippets")
         IN  Returned(theme.calls \o snippets.calls
                        \o <<GetConfig, ConfigCall("update", <<cnt>>)>>,
                      theme.sent \o snippets.sent)

\* Mutant of HandleConfigGet: the value is read with getEnv, as in the
\* case below it.
HandleConfigGetReadsEnv(app, cnt) ==
    Returned(<<GetConfig, ConfigCall("getEnv", <<cnt>>)>> \o SenderLookup,
             <<Send("config", O([key |-> cnt, value |-> ConfigGetEnv(cnt)]))>>)

\* case 'config-get'
HandleConfigGet(app, cnt) ==
    Returned(<<GetConfig, ConfigCall("get", <<cnt>>)>> \o SenderLookup,
             <<Send("config", O([key |-> cnt, value |-> ConfigGet(app, cnt)]))>>)

\* case 'config-get-env'
HandleConfigGetEnv(cnt) ==
    Returned(<<GetConfig, ConfigCall("getEnv", <<cnt>>)>> \o SenderLookup,
             <<Send("config", O([key |-> cnt, value |-> ConfigGetEnv(cnt)]))>>)

\* case 'typo-request-lang'
HandleTypoRequestLang(app, cnt) ==
    Returned(<<GetConfig, ConfigCall("get", <<P("spellcheck")>>)>>
                 \o SenderLookup,
             <<Send("typo-lang", ConfigGet(app, P("spellcheck")))>>)

\* cases 'typo-request-aff', 'typo-request-dic'
RetrieveDictFile(type, cnt) ==
    Returned(<<AppCall("retrieveDictFile", <<P(type), cnt>>)>>, <<>>)

\* Mutant of HandleUnknown: the default case is missing and the case
\* before it, typo-request-dic, takes the unknown command.
HandleUnknownAsDic(cmd) ==
    Result(<<AppCall("retrieveDictFile", <<P("dic"), EmptyObj>>)>>, <<>>,
           <<>>, FALSE)

\* default: the unknown command is logged.
HandleUnknown(cmd) ==
    Result(<<>>, <<>>, <<"system.unknown_command">>, FALSE)

\* The command strings the switch of handleEvent has a case for.
Commands ==
    {"get-paths", "file-get-quicklook", "file-get", "dir-select",
     "file-modified", "file-new", "dir-new", "file-save", "file-autosave",
     "file-revert", "dir-open", "file-delete", "dir-delete", "file-search",
     "toggle-theme", "toggle-snippets", "export", "dir-rename",
     "file-rename", "request-move", "get-preferences", "update-config",
     "config-get", "config-get-env", "typo-request-lang",
     "typo-request-aff", "typo-request-dic"}

\* handleEvent(cmd, cnt) on controller app: the switch compares cmd strictly
\* with each string.
HandleEvent(app, cmd, cnt) ==
    CASE cmd = P("get-paths")          -> HandleGetPaths(cnt)
      [] cmd = P("file-get-quicklook") -> HandleFileGetQuicklook(cnt)
      [] cmd = P("file-get")           -> ForwardContent("sendFile", cnt)
      [] cmd = P("dir-select")         -> ForwardContent("selectDir", cnt)
      [] cmd = P("file-modified")      -> CallNoArgument("setModified")
      [] cmd = P("file-new")           -> ForwardContent("newFile", cnt)
      [] cmd = P("dir-new")            -> ForwardContent("newDir", cnt)
      [] cmd = P("file-save")          -> ForwardContent("saveFile", cnt)
      [] cmd = P("file-autosave")      -> ForwardContent("autoSave", cnt)
      [] cmd = P("file-revert")        -> CallNoArgument("revert")
      [] cmd = P("dir-open")           -> HandleDirOpen(cnt)
      [] cmd = P("file-delete")        -> HandleFileDelete(app, cnt)
      [] cmd = P("dir-delete")         -> HandleDirDelete(app, cnt)
      [] cmd = P("file-search")        -> HandleFileSearch(cnt)
      [] cmd = P("toggle-theme")       -> HandleToggleTheme(app, cnt)
      [] cmd = P("toggle-snippets")    -> HandleToggleSnippets(app, cnt)
      [] cmd = P("export")             -> ForwardContent("exportFile", cnt)
      [] cmd = P("dir-rename")         -> ForwardContent("renameDir", cnt)
      [] cmd = P("file-rename")        -> ForwardContent("renameFile", cnt)
      [] cmd = P("request-move")       -> ForwardContent("requestMove", cnt)
      [] cmd = P("get-preferences")    -> HandleGetPreferences(app, cnt)
      [] cmd = P("update-config")      -> HandleUpdateConfig(app, cnt)
      [] cmd = P("config-get")         -> HandleConfigGet(app, cnt)
      [] cmd = P("config-get-env")     -> HandleConfigGetEnv(cnt)
      [] cmd = P("typo-request-lang")  -> HandleTypoRequestLang(app, cnt)
      [] cmd = P("typo-request-aff")   -> RetrieveDictFile("aff", cnt)
      [] cmd = P("typo-request-dic")   -> RetrieveDictFile("dic", cnt)
      [] OTHER                         -> HandleUnknown(cmd)

----------------------------------------------------------------------------
(* dispatch, and the listener the constructor registers.                   *)

\* Mutant of DispatchContent: a missing content is not replaced by {}.
DispatchContentNoDefault(a) == Get(a, "content")

\* The content dispatch hands to handleEvent: arg.content, set to {} first
\* when arg has no own property 'content'.
DispatchContent(a) ==
    IF HasOwn(a, "content") THEN Get(a, "content") ELSE EmptyObj

\* dispatch(arg) on controller app: what handleEvent was invoked with, if
\* it was, and the effects.  arg.hasOwnProperty throws when arg is null or
\* undefined.
Dispatch(app, a) ==
    IF IsNullish(a)
    THEN [handled |-> <<>>, result |-> Threw(<<>>, <<>>)]
    ELSE IF ~HasOwn(a, "command")
    THEN [handled |-> <<>>,
          result  |-> Result(<<>>, <<>>, <<"system.no_command">>, FALSE)]
    ELSE [handled |-> << <<Get(a, "command"), DispatchContent(a)>> >>,
          result  |-> HandleEvent(app, Get(a, "command"), DispatchContent(a))]

----------------------------------------------------------------------------
(* The controller's reaction to the calls it receives.                     *)

\* config.set(key, value)
ConfigSet(cfg, key, value) ==
    IF key.t = "prim" /\ key.v \in ConfigKeys
    THEN [cfg EXCEPT ![key.v] = value] ELSE cfg

\* config.update(cnt): every setting cnt names takes cnt's value.
ConfigUpdate(cfg, cnt) ==
    [k \in ConfigKeys |-> IF HasOwn(cnt, k) THEN Get(cnt, k) ELSE cfg[k]]

\* The entity current after sendFile(h) / selectDir(h).
Select(current, h) ==
    IF h.t = "prim" /\ h.v \in Hashes THEN h ELSE current

\* The entity current after removeFile(...) / removeDir(...): the current
\* one is removed when no hash is given or the hash given is its own.
Remove(current, a) ==
    IF a = <<>> \/ a[1] = current THEN Null ELSE current

ApplyCall(st, c) ==
    CASE c.obj = "config" /\ c.method = "set" ->
           [st EXCEPT !.config = ConfigSet(st.config, c.args[1], c.args[2])]
      [] c.obj = "config" /\ c.method = "update" ->
           [st EXCEPT !.config = ConfigUpdate(st.config, c.args[1])]
      [] c.obj = "app" /\ c.method = "sendFile" ->
           [st EXCEPT !.currentFile = Select(st.currentFile, c.args[1])]
      [] c.obj = "app" /\ c.method = "selectDir" ->
           [st EXCEPT !.currentDir = Select(st.currentDir, c.args[1])]
      [] c.obj = "app" /\ c.method = "removeFile" ->
           [st EXCEPT !.currentFile = Remove(st.currentFile, c.args)]
      [] c.obj = "app" /\ c.method = "removeDir" ->
           [st EXCEPT !.currentDir = Remove(st.currentDir, c.args)]
      [] OTHER -> st

RECURSIVE ApplyCalls(_, _)
ApplyCalls(st, cs) ==
    IF cs = <<>> THEN st ELSE ApplyCalls(ApplyCall(st, Head(cs)), Tail(cs))

----------------------------------------------------------------------------
(* The messages the renderer may send.                                     *)

\* Contents sent with any command: null, {}, {hash: h} and a bare hash.
GenericContents ==
    {Null, EmptyObj}
      \cup {O([hash |-> P(h)]) : h \in Hashes}
      \cup {P(h) : h \in Hashes}

\* Configuration objects: every partial assignment of darkTheme and
\* snippets, and the two assignments of spellcheck.
ConfigContents ==
    {O(f) : f \in UNION {[D -> {JsTrue, JsFalse, Null}] :
                           D \in SUBSET {"darkTheme", "snippets"}}}
      \cup {O([spellcheck |-> Null]), O([spellcheck |-> P("de_DE")])}

\* Command values without a case: an unknown string and a non-string.
UnknownCommands == {P("bogus"), Null}

CommandValues == {P(c) : c \in Commands} \cup UnknownCommands

\* The names config-get and config-get-env are asked for: a setting and an
\* environment value, each unknown to the other store.
KeyContents == {P("darkTheme"), P("pandoc")}

\* A configuration object is an object without 'hash' to every command but
\* update-config, as {} is, and a name is a string like any other to every
\* command but config-get and config-get-env: each is sent with the
\* commands that read it.
ContentsFor(c) ==
    GenericContents
      \cup (IF c = P("update-config") THEN ConfigContents ELSE {})
      \cup (IF c \in {P("config-get"), P("config-get-env")}
            THEN KeyContents ELSE {})

Payloads ==
    {Null, Undefined, P("ping"), EmptyObj}
      \cup {O([content |-> x]) : x \in GenericContents}
      \cup {O([command |-> c]) : c \in CommandValues}
      \cup UNION {{O([command |-> c, content |-> x]) : x \in ContentsFor(c)} :
                    c \in CommandValues}

----------------------------------------------------------------------------

Init ==
    /\ config \in {[k \in ConfigKeys |->
                       CASE k = "darkTheme" -> d
                         [] k = "snippets" -> s
                         [] OTHER -> P("de_DE")] :
                     d \in {JsTrue, JsFalse}, s \in {JsTrue, JsFalse}}
    /\ currentFile = Null
    /\ currentDir = Null
    /\ arg = Undefined
    /\ calls = <<>>
    /\ handled = <<>>
    /\ sent = <<>>
    /\ log = <<>>
    /\ outcome = "none"
    /\ pre = AppState(config, currentFile, currentDir)
    /\ origin = NoOrigin

\* a and b are both toggle-theme messages, or both toggle-snippets messages.
SameToggle(a, b) ==
    /\ ~IsNullish(a) /\ ~IsNullish(b)
    /\ Get(a, "command") = Get(b, "command")
    /\ Get(a, "command") \in {P("toggle-theme"), P("toggle-snippets")}

\* The listener on channel 'message': dispatch(a) runs to completion, and
\* the controller has reacted to every call made.
OnMessage(a) ==
    \E d \in {Dispatch(AppState(config, currentFile, currentDir), a)} :
      \E post \in {ApplyCalls(AppState(config, currentFile, currentDir),
                              d.result.calls)} :
        /\ arg' = a
        /\ pre' = AppState(config, currentFile, currentDir)
        /\ handled' = d.handled
        /\ calls' = d.result.calls
        /\ sent' = d.result.sent
        /\ log' = d.result.log
        /\ outcome' = IF d.result.threw THEN "threw" ELSE "returned"
        /\ config' = post.config
        /\ currentFile' = post.currentFile
        /\ currentDir' = post.currentDir
        /\ origin' = IF SameToggle(arg, a) THEN pre.config ELSE NoOrigin

Next == \E a \in Payloads : OnMessage(a)

Spec == Init /\ [][Next]_vars

----------------------------------------------------------------------------
(* Vocabulary of the properties.                                           *)

\* A message was dispatched and it has a command.
HasCommand == outcome # "none" /\ ~IsNullish(arg) /\ HasOwn(arg, "command")

\* The last message dispatched has command c.
Is(c) == HasCommand /\ Get(arg, "command") = P(c)

\* The content of the last message, {} standing for a content left out.
Cnt == IF HasOwn(arg, "content") THEN Get(arg, "content") ELSE EmptyObj

\* The calls of the last dispatch on method m of the controller.
CallsOf(m) == SelectSeq(calls, LAMBDA c : c.obj = "app" /\ c.method = m)

Unchanged == AppState(config, currentFile, currentDir) = pre

Booleans == {JsTrue, JsFalse}

----------------------------------------------------------------------------
\* C1: every payload without a command field, null and undefined among
\* them, is dropped: dispatch returns normally, calls nothing on the
\* controller and sends nothing.
C1_NoCommandIsDropped ==
    (outcome # "none" /\ (IsNullish(arg) \/ ~HasOwn(arg, "command")))
        => outcome = "returned" /\ calls = <<>> /\ sent = <<>>

\* C2: a command without a case in handleEvent calls nothing on the
\* controller, sends nothing and leaves the controller's state as it was,
\* whatever the content.
C2_UnknownCommandNoEffect ==
    (HasCommand /\ Get(arg, "command") \notin {P(c) : c \in Commands})
        => /\ outcome = "returned"
           /\ calls = <<>>
           /\ sent = <<>>
           /\ Unchanged

\* C2's case: an unknown command with content null, while a file is current.
C2_Witness ==
    /\ HasCommand
    /\ Get(arg, "command") = P("bogus")
    /\ HasOwn(arg, "content") /\ Get(arg, "content") = Null
    /\ currentFile # Null
    /\ log = <<"system.unknown_command">>

\* What C3 says of one delete command: with a hash in the content, one
\* remove call with that hash; else with a current entity, one remove call
\* without argument; else none; nothing sent, and no call of the other
\* remove method.
DeleteContract(remove, other, current) ==
    /\ IF ~IsNullish(Cnt) /\ HasOwn(Cnt, "hash")
       THEN CallsOf(remove) = <<AppCall(remove, <<Get(Cnt, "hash")>>)>>
       ELSE IF current # Null
       THEN CallsOf(remove) = <<AppCall(remove, <<>>)>>
       ELSE CallsOf(remove) = <<>>
    /\ CallsOf(other) = <<>>
    /\ sent = <<>>

\* C3 as stated: the contract of file-delete and dir-delete, for every
\* content.
C3_DeleteForEveryContent ==
    /\ Is("file-delete") => DeleteContract("removeFile", "removeDir", pre.currentFile)
    /\ Is("dir-delete") => DeleteContract("removeDir", "removeFile", pre.currentDir)

\* C3 amended: the contract holds for every content other than null and
\* undefined; with content null or undefined the handler throws before any
\* call, and sends nothing.
C3_DeleteContract ==
    /\ (Is("file-delete") /\ ~IsNullish(Cnt))
         => /\ outcome = "returned"
            /\ DeleteContract("removeFile", "removeDir", pre.currentFile)
    /\ (Is("dir-delete") /\ ~IsNullish(Cnt))
         => /\ outcome = "returned"
            /\ DeleteContract("removeDir", "removeFile", pre.currentDir)
    /\ ((Is("file-delete") \/ Is("dir-delete")) /\ IsNullish(Cnt))
         => outcome = "threw" /\ calls = <<>> /\ sent = <<>>

\* C3's case: file-delete with content {} while a file is current removes
\* the current file.
C3_Witness ==
    /\ Is("file-delete")
    /\ HasOwn(arg, "content") /\ Get(arg, "content") = EmptyObj
    /\ pre.currentFile # Null
    /\ CallsOf("removeFile") = <<AppCall("removeFile", <<>>)>>
    /\ currentFile = Null

\* The incoming configuration changes setting k: it names k with a value
\* other than the current one.
Changes(k) == HasOwn(Cnt, k) /\ Get(Cnt, k) # pre.config[k]

Replies(command) ==
    SelectSeq(sent, LAMBDA m : m.command = command)

\* C4: on update-config each toggle reply, with content 'no-emit', is sent
\* if and only if the incoming configuration changes its setting; the
\* replies precede the update, which is applied once with the content.
C4_ReplyIffChanged ==
    (Is("update-config") /\ ~IsNullish(Cnt))
        => /\ Replies("toggle-theme") =
                (IF Changes("darkTheme")
                 THEN <<Send("toggle-theme", P("no-emit"))>> ELSE <<>>)
           /\ Replies("toggle-snippets") =
                (IF Changes("snippets")
                 THEN <<Send("toggle-snippets", P("no-emit"))>> ELSE <<>>)
           /\ calls # <<>>
           /\ calls[Len(calls)] = ConfigCall("update", <<Cnt>>)
           /\ \A i \in 1..(Len(calls) - 1) : calls[i].method # "update"

\* What one toggle does: the named setting becomes its negation, nothing
\* else changes, nothing is sent.
ToggleContract(k) ==
    /\ outcome = "returned"
    /\ config = [pre.config EXCEPT ![k] = Not(pre.config[k])]
    /\ currentFile = pre.currentFile /\ currentDir = pre.currentDir
    /\ sent = <<>>

\* C5 as stated: two toggles in a row restore the configuration, from any
\* reachable configuration, and one toggle negates the named setting alone.
C5_TwiceRestores ==
    /\ origin # NoOrigin => config = origin
    /\ Is("toggle-theme") => ToggleContract("darkTheme")
    /\ Is("toggle-snippets") => ToggleContract("snippets")

\* C5 amended: two toggles in a row restore the configuration when the
\* setting held a boolean before the first; one toggle negates the named
\* setting alone.
C5_TwiceRestoresBoolean ==
    /\ (origin # NoOrigin /\ Is("toggle-theme") /\ origin["darkTheme"] \in Booleans)
         => config = origin
    /\ (origin # NoOrigin /\ Is("toggle-snippets") /\ origin["snippets"] \in Booleans)
         => config = origin
    /\ Is("toggle-theme") => ToggleContract("darkTheme")
    /\ Is("toggle-snippets") => ToggleContract("snippets")

\* C5's case: toggle-theme was dispatched twice in a row from a
\* configuration with darkTheme true, and the configuration is back.
C5_Witness ==
    /\ Is("toggle-theme")
    /\ origin # NoOrigin
    /\ origin["darkTheme"] = JsTrue
    /\ pre.config["darkTheme"] = JsFalse
    /\ config = origin

\* The controller method each forwarding command of C6 names.
Mutator(c) ==
    CASE c = "file-get" -> "sendFile"
      [] c = "dir-select" -> "selectDir"
      [] c = "file-new" -> "newFile"
      [] c = "dir-new" -> "newDir"
      [] c = "file-save" -> "saveFile"
      [] c = "file-autosave" -> "autoSave"
      [] c = "dir-open" -> "openDir"

ForwardsContent(c) ==
    Is(c) => /\ outcome = "returned"
             /\ calls = <<AppCall(Mutator(c), <<Cnt>>)>>
             /\ sent = <<>>

\* C6 as stated: each of the seven commands calls its mutator once with
\* the message's content, and sends nothing.
C6_SevenForwardContent ==
    \A c \in {"file-get", "dir-select", "file-new", "dir-new", "file-save",
              "file-autosave", "dir-open"} : ForwardsContent(c)

\* C6 amended: file-get, dir-select, file-new, dir-new, file-save and
\* file-autosave call their mutator once with the message's content; dir-open
\* calls openDir once without any argument; none of the seven sends a
\* message.
C6_SixForwardContent ==
    /\ \A c \in {"file-get", "dir-select", "file-new", "dir-new", "file-save",
                 "file-autosave"} : ForwardsContent(c)
    /\ Is("dir-open") => /\ outcome = "returned"
                         /\ calls = <<AppCall("openDir", <<>>)>>
                         /\ sent = <<>>

\* C6's case: dir-open with content {hash: h1} calls openDir() bare.
C6_Witness ==
    /\ Is("dir-open")
    /\ HasOwn(arg, "content") /\ Get(arg, "content") = O([hash |-> P("h1")])
    /\ calls = <<AppCall("openDir", <<>>)>>

\* C7 as stated: a dispatch makes at most one call on the controller and
\* the objects it hands out, accessors counted.
C7_AtMostOneCall == Len(calls) <= 1

\* The methods that only read: the controller's and its objects' accessors.
Accessors ==
    {"getPaths", "findFile", "withContent", "search", "getCurrentFile",
     "getCurrentDir", "getConfig", "get", "getEnv", "getSupportedLangs",
     "getWindow"}

Mutations == SelectSeq(calls, LAMBDA c : c.method \notin Accessors)

\* C7 amended: a dispatch makes at most one call that is not an accessor,
\* and it is the last call made; accessor calls may be several, at most
\* eight calls in all.
C7_AtMostOneMutation ==
    /\ Len(Mutations) <= 1
    /\ Len(Mutations) = 1 => calls[Len(calls)] = Mutations[1]
    /\ Len(calls) <= 8

\* C7's case: an update-config that changes both settings makes eight
\* calls, the update last.
C7_Witness ==
    /\ Is("update-config")
    /\ Len(calls) = 8
    /\ Len(sent) = 2
    /\ Mutations = <<ConfigCall("update", <<Cnt>>)>>

\* C8: config-get with content k sends one message, 'config' with
\* {key: k, value: the configuration's value of k}, and changes nothing;
\* config-get-env does so with the environment's value.
C8_ConfigGetReplies ==
    /\ Is("config-get") =>
         /\ outcome = "returned"
         /\ Len(sent) = 1
         /\ sent[1].command = "config"
         /\ sent[1].content.t = "obj"
         /\ DOMAIN sent[1].content.f = {"key", "value"}
         /\ sent[1].content.f["key"] = Cnt
         /\ (Cnt.t = "prim" /\ Cnt.v \in ConfigKeys)
              => sent[1].content.f["value"] = pre.config[Cnt.v]
         /\ Unchanged
    /\ Is("config-get-env") =>
         /\ outcome = "returned"
         /\ Len(sent) = 1
         /\ sent[1].command = "config"
         /\ sent[1].content.t = "obj"
         /\ DOMAIN sent[1].content.f = {"key", "value"}
         /\ sent[1].content.f["key"] = Cnt
         /\ (Cnt.t = "prim" /\ Cnt.v \in EnvKeys)
              => sent[1].content.f["value"] = Env[Cnt.v]
         /\ Unchanged

\* C8's case: config-get of darkTheme after an update-config set it to null
\* and a toggle-theme made it true.
C8_Witness ==
    /\ Is("config-get")
    /\ Cnt = P("darkTheme")
    /\ config["darkTheme"] = JsTrue
    /\ config["snippets"] = Null
    /\ sent = <<Send("config", O([key |-> P("darkTheme"), value |-> JsTrue]))>>

\* C9: every message sent has a content that is not missing: never
\* undefined and never null.
C9_ContentNeverEmpty ==
    \A i \in 1..Len(sent) : ~IsNullish(sent[i].content)

\* The payload a, with content {} put in.
WithEmptyContent(a) == O([command |-> Get(a, "command"), content |-> EmptyObj])

\* C10: a payload with a command and no content has handleEvent invoked
\* once with that command and {}, and the dispatch does what the dispatch of
\* the same command with content {} does.
C10_MissingContentIsEmpty ==
    (HasCommand /\ ~HasOwn(arg, "content"))
        => /\ handled = << <<Get(arg, "command"), EmptyObj>> >>
           /\ LET same == Dispatch(pre, WithEmptyContent(arg)).result
              IN  /\ calls = same.calls
                  /\ sent = same.sent
                  /\ log = same.log
                  /\ outcome = (IF same.threw THEN "threw" ELSE "returned")
                  /\ AppState(config, currentFile, currentDir) =
                       ApplyCalls(pre, same.calls)

\* C10's case: file-delete without content, while a file is current, removes
\* the current file and does not throw.
C10_Witness ==
    /\ Is("file-delete")
    /\ ~HasOwn(arg, "content")
    /\ pre.currentFile # Null
    /\ outcome = "returned"
    /\ handled = << <<P("file-delete"), EmptyObj>> >>
    /\ CallsOf("removeFile") = <<AppCall("removeFile", <<>>)>>

====
